---- MODULE Spec2Model ----
(***************************************************************************)
(* Model of itunes_app_scraper.scraper.AppStoreScraper.                    *)
(*                                                                         *)
(* The scraper is a single-threaded library: one caller-facing operation   *)
(* runs at a time.  The state is the Python call stack of the operation in *)
(* progress (stack, pc and the locals of the frames), the exception that   *)
(* is propagating, the network requests issued, and the per-country log    *)
(* file.  The upstream store is the environment: every request either      *)
(* raises or returns a body chosen from a bounded set.                     *)
(***************************************************************************)
EXTENDS Integers, Sequences, FiniteSets, TLC

(***************************************************************************)
(* Bounds of the model.                                                    *)
(***************************************************************************)
\* longest country list handed to get_app_ratings
MaxCountries == 2
\* most star fragments on one review page
MaxFragments == 6
\* longest app_ids list handed to get_multiple_app_details
MaxIds == 2
\* longest country list of the pure accumulation check
MaxSumCountries == 3
\* longest first result bucket of a search response
MaxResults == 3
\* most chart entries on a charts page
MaxHrefs == 2

(***************************************************************************)
(* Python values.  A value is a record with one field that names its type, *)
(* so that values of different types can be told apart and compared.       *)
(***************************************************************************)
PyStr(s) == [str |-> s]
PyInt(n) == [int |-> n]
PyList(s) == [list |-> s]
PyDict(items) == [dict |-> items]
PyNone == [none |-> "None"]
TypeOf(v) == CHOOSE t \in DOMAIN v : TRUE

Min(a, b) == IF a <= b THEN a ELSE b
\* every list of at most n elements of S
SeqsUpTo(S, n) == UNION {[1..k -> S] : k \in 0..n}
Range(s) == {s[i] : i \in 1..Len(s)}

RECURSIVE Concat(_)
\* "".join(chars)
Concat(chars) ==
    IF chars = <<>> THEN "" ELSE Head(chars) \o Concat(Tail(chars))

(***************************************************************************)
(* Exceptions.                                                             *)
(***************************************************************************)
NoExc == [kind |-> "none", msg |-> ""]
Exc(kind, msg) == [kind |-> kind, msg |-> msg]
AppStoreException(msg) == Exc("AppStoreException", msg)

(***************************************************************************)
(* util.AppStoreMarkets and get_store_id_for_country.                      *)
(* A country code is a sequence of characters.  The model's alphabet is    *)
(* the letters u, s, d, e in both cases; AppStoreMarkets below is the      *)
(* whole of the table over that alphabet.                                  *)
(***************************************************************************)
LowerLetters == {"u", "s", "d", "e"}
UpperLetters == {"U", "S", "D", "E"}
Letters == LowerLetters \cup UpperLetters

\* str.upper() on one character
UpperCharIdentity(ch) == ch
UpperChar(ch) ==
    CASE ch = "u" -> "U"
      [] ch = "s" -> "S"
      [] ch = "d" -> "D"
      [] ch = "e" -> "E"
      [] OTHER -> ch

\* country.upper()
upper(code) == [i \in 1..Len(code) |-> UpperChar(code[i])]

AppStoreMarkets ==
    (<<"E", "E">> :> 143518) @@ (<<"D", "E">> :> 143443) @@
    (<<"E", "S">> :> 143454) @@ (<<"S", "E">> :> 143456) @@
    (<<"U", "S">> :> 143441)

\* hasattr(AppStoreMarkets, country)
hasattr_AppStoreMarkets(name) == name \in DOMAIN AppStoreMarkets

\* The result of a call: the exception it raised (NoExc if none) and the
\* value it returned.
get_store_id_for_country(country) ==
    LET c == upper(country) IN
    IF hasattr_AppStoreMarkets(c)
    THEN [exc |-> NoExc, value |-> AppStoreMarkets[c]]
    ELSE [exc |-> AppStoreException("Country code not found for " \o Concat(c)),
          value |-> 0]

\* every two-letter code over the alphabet
Codes == {<<a, b>> : a \in Letters, b \in Letters}
\* the country arguments of the operations that issue requests
CountryArgs == {<<"U", "s">>, <<"s", "u">>}

(***************************************************************************)
(* Review pages and _parse_rating.                                         *)
(* A review page is modelled by the sequence of what Regex.STARS.findall   *)
(* finds in it; each fragment is modelled by the text between the opening  *)
(* <span class="total"> and the closing </span>, a sequence of characters. *)
(***************************************************************************)
Digits == {"0", "1", "2", "3", "4", "5", "6", "7", "8", "9"}
DigitVal(ch) ==
    CASE ch = "0" -> 0 [] ch = "1" -> 1 [] ch = "2" -> 2 [] ch = "3" -> 3
      [] ch = "4" -> 4 [] ch = "5" -> 5 [] ch = "6" -> 6 [] ch = "7" -> 7
      [] ch = "8" -> 8 [] ch = "9" -> 9

RECURSIVE DecimalValue(_)
DecimalValue(chars) ==
    IF chars = <<>> THEN 0
    ELSE 10 * DecimalValue(SubSeq(chars, 1, Len(chars) - 1))
         + DigitVal(chars[Len(chars)])

\* int(value) on a string: an optional sign and one or more decimal digits
\* give the number, anything else raises ValueError.  (Surrounding
\* whitespace and underscores, which int() also accepts, are not in the
\* alphabet of the modelled fragments.)
int(chars) ==
    LET signed == chars # <<>> /\ Head(chars) \in {"-", "+"}
        body == IF signed THEN Tail(chars) ELSE chars
    IN  IF body # <<>> /\ Range(body) \subseteq Digits
        THEN [exc |-> NoExc,
              value |-> IF signed /\ Head(chars) = "-"
                        THEN 0 - DecimalValue(body) ELSE DecimalValue(body)]
        ELSE [exc |-> Exc("ValueError", "invalid literal for int() with base 10: '"
                                         \o Concat(chars) \o "'"),
              value |-> 0]

\* the fragment texts of the modelled pages
Texts == {<<"0">>, <<"2">>, <<"-", "1">>, <<"1", ",", "2">>}

\* Pages whose fragments are all alike, of every length up to MaxFragments,
\* and pages of five fragments in which one differs from the other four.
Pages ==
    {[i \in 1..n |-> t] : n \in 0..MaxFragments, t \in Texts}
    \cup {[i \in 1..5 |-> IF i = p THEN t ELSE <<"0">>] : p \in 1..5, t \in Texts}

\* len(matches) != 5
WrongCountAtMost4(matches) == Len(matches) < 5
WrongCount(matches) == Len(matches) # 5

\* _parse_rating(text): value is <<>> for None, else <<ratings>> with
\* ratings the dict star -> count.  The first match is the five-star count,
\* the last the one-star count; the first int() that fails raises.
_parse_rating(matches) ==
    IF WrongCount(matches)
    THEN [exc |-> NoExc, value |-> <<>>]
    ELSE LET n == Len(matches)
             bad == {i \in 1..n : int(matches[i]).exc # NoExc}
         IN  IF bad # {}
             THEN [exc |-> int(matches[CHOOSE i \in bad : \A j \in bad : i <= j]).exc,
                   value |-> <<>>]
             ELSE [exc |-> NoExc,
                   value |-> <<[star \in {6 - i : i \in 1..n} |->
                                    int(matches[6 - star]).value]>>]

\* dataset = { 1: 0, 2: 0, 3: 0, 4: 0, 5: 0 }
ZeroDataset == [star \in 1..5 |-> 0]

\* dataset[k] = dataset[k] + ratings[k], k = 1..5
AccumulateOverwrite(data, counts) == [star \in 1..5 |-> counts[star]]
Accumulate(data, counts) ==
    [star \in 1..5 |-> data[star] + counts[star]]

(***************************************************************************)
(* JSON values, the lookup response and the flattening of get_app_details. *)
(* A dict is the sequence of its <<key, value>> items in insertion order.  *)
(***************************************************************************)
HasKey(items, k) == \E i \in 1..Len(items) : items[i][1] = k
Get(items, k) == items[CHOOSE i \in 1..Len(items) : items[i][1] = k][2]
\* d[k] = v
Set(items, k, v) ==
    IF HasKey(items, k)
    THEN [i \in 1..Len(items) |-> IF items[i][1] = k THEN <<k, v>> ELSE items[i]]
    ELSE Append(items, <<k, v>>)

RECURSIVE JoinStr(_, _)
\* sep.join(strs)
JoinStr(sep, strs) ==
    IF strs = <<>> THEN ""
    ELSE IF Len(strs) = 1 THEN strs[1]
    ELSE strs[1] \o sep \o JoinStr(sep, Tail(strs))

RECURSIVE repr(_)
repr(v) ==
    CASE TypeOf(v) = "str" -> "'" \o v.str \o "'"
      [] TypeOf(v) = "int" -> ToString(v.int)
      [] TypeOf(v) = "none" -> "None"
      [] TypeOf(v) = "list" ->
            "[" \o JoinStr(", ", [i \in 1..Len(v.list) |-> repr(v.list[i])]) \o "]"
      [] TypeOf(v) = "dict" ->
            "{" \o JoinStr(", ", [i \in 1..Len(v.dict) |->
                    repr(PyStr(v.dict[i][1])) \o ": " \o repr(v.dict[i][2])]) \o "}"

\* "%s" % v
str(v) == IF TypeOf(v) = "str" THEN v.str ELSE repr(v)

\* result["results"]: the value, KeyError for a dict without the key,
\* TypeError for a JSON array
GetResults(result) ==
    IF TypeOf(result) = "dict"
    THEN IF HasKey(result.dict, "results")
         THEN [exc |-> NoExc, value |-> Get(result.dict, "results")]
         ELSE [exc |-> Exc("KeyError", "'results'"), value |-> PyNone]
    ELSE [exc |-> Exc("TypeError", "list indices must be integers or slices, not str"),
          value |-> PyNone]

\* results[0] of a list
GetFirst(results) ==
    IF results.list # <<>>
    THEN [exc |-> NoExc, value |-> results.list[1]]
    ELSE [exc |-> Exc("IndexError", "list index out of range"), value |-> PyNone]

\* ",".join(value): every item must be a str
JoinList(value) ==
    IF \A i \in 1..Len(value.list) : TypeOf(value.list[i]) = "str"
    THEN [exc |-> NoExc,
          value |-> PyStr(JoinStr(",", [i \in 1..Len(value.list) |-> value.list[i].str]))]
    ELSE [exc |-> Exc("TypeError", "sequence item: expected str instance"),
          value |-> PyNone]

\* ", ".join(["%s star: %s" % (key, value) for key, value in value.items()])
JoinDict(value) ==
    PyStr(JoinStr(", ", [i \in 1..Len(value.dict) |->
                            value.dict[i][1] \o " star: " \o str(value.dict[i][2])]))

\* the loop body of the flattening, for one field
FlattenFieldListsOnly(value) ==
    IF TypeOf(value) = "list" THEN JoinList(value)
    ELSE [exc |-> NoExc, value |-> value]
FlattenField(value) ==
    IF TypeOf(value) = "list" THEN JoinList(value)
    ELSE IF TypeOf(value) = "dict" THEN [exc |-> NoExc, value |-> JoinDict(value)]
    ELSE [exc |-> NoExc, value |-> value]

\* for field in app: ...   The first field that fails raises.
flatten(app) ==
    LET n == Len(app)
        bad == {i \in 1..n : FlattenField(app[i][2]).exc # NoExc}
    IN  IF bad # {}
        THEN [exc |-> FlattenField(app[CHOOSE i \in bad : \A j \in bad : i <= j][2]).exc,
              value |-> <<>>]
        ELSE [exc |-> NoExc,
              value |-> [i \in 1..n |-> <<app[i][1], FlattenField(app[i][2]).value>>]]

\* [value for key, value in ratings.items()]: the counts in the dict's
\* insertion order, which is 1, 2, 3, 4, 5
Histogram(counts) == PyList([i \in 1..5 |-> PyInt(counts[i])])

\* the upstream records of the model: the items of result["results"][0]
Apps ==
    {<<<<"trackId", PyInt(11)>>, <<"genres", g>>, <<"extra", x>>>> :
        g \in {PyList(<<PyStr("Games"), PyStr("Fun")>>), PyList(<<PyInt(6014)>>)},
        x \in {PyStr("x"), PyDict(<<<<"5", PyInt(3)>>, <<"4", PyStr("a")>>>>)}}

\* the JSON bodies of the lookup endpoint: an array, an object without
\* "results", one with no result, and one with a result
LookupBodies ==
    {PyList(<<>>), PyDict(<<>>),
     PyDict(<<<<"resultCount", PyInt(0)>>, <<"results", PyList(<<>>)>>>>)}
    \cup {PyDict(<<<<"resultCount", PyInt(1)>>, <<"results", PyList(<<PyDict(a)>>)>>>>) :
            a \in Apps}

(***************************************************************************)
(* State.                                                                  *)
(***************************************************************************)
VARIABLES
    op,         \* the caller-facing operation in progress or finished ("none" at start)
    args,       \* its arguments
    stack,      \* the call stack, outermost frame first; <<>> when no call is running
    pc,         \* the position in the innermost frame
    exc,        \* the exception that is propagating, or that ended the call (NoExc if none)
    outcome,    \* of the caller-facing call: "none" (running), "returned" or "raised"
    requests,   \* requests.get calls issued since the caller-facing call began
    log,        \* lines _log_error appended since the caller-facing call began
    trace,      \* sleeps and requests.get calls made for the lookup, or for
                \* the country, in progress, oldest first
    attempt,    \* 1 for the initial request, 2 for the retry, 0 outside a request
    nmatches,   \* get_app_ratings: how many star fragments the last page held
    store_id,   \* get_app_ratings / get_store_id_for_country: the resolved id
    ratings,    \* get_app_ratings: its arguments app_id and sleep
    countries,  \* get_app_ratings: the normalised country list
    cidx,       \* get_app_ratings: 1-based index of the loop's country
    dataset,    \* get_app_ratings: the histogram
    details,    \* get_app_details: its arguments
    app,        \* get_app_details: the record, the items of a dict
    aidx,       \* get_multiple_app_details: 1-based index of the loop's app_id
    yielded,    \* get_multiple_app_details: the positions in app_ids whose
                \* record the generator has yielded, in the order yielded
    amount,     \* get_app_ids_for_query: int(num) * int(page)
    ids         \* get_app_ids_for_query, get_app_from_collection_category:
                \* the list returned

vars == <<op, args, stack, pc, exc, outcome, requests, log, trace, attempt,
          nmatches, store_id, ratings, countries, cidx, dataset,
          details, app, aidx, yielded, amount, ids>>

NoArgs == [none |-> "None"]
\* sleep=None is <<>>, sleep=n is <<n>>; time.sleep rejects a negative n
SleepArgs == {<<>>, <<1>>, <<-1>>}
AppIds == {"11", "com.a"}

Init ==
    /\ op = "none"
    /\ args = NoArgs
    /\ stack = <<>>
    /\ pc = "idle"
    /\ exc = NoExc
    /\ outcome = "none"
    /\ requests = 0
    /\ log = <<>>
    /\ trace = <<>>
    /\ attempt = 0
    /\ nmatches = 0
    /\ store_id = 0
    /\ ratings = NoArgs
    /\ countries = <<>>
    /\ cidx = 0
    /\ dataset = ZeroDataset
    /\ details = NoArgs
    /\ app = <<>>
    /\ aidx = 0
    /\ yielded = <<>>
    /\ amount = 0
    /\ ids = <<>>

Top == stack[Len(stack)]
In(frame, at) == stack # <<>> /\ Top = frame /\ pc = at

\* where a frame goes on when the call it made has returned or raised
Continuation(frame) ==
    CASE frame = "get_app_details" -> "details_ratings_done"
      [] frame = "get_multiple_app_details" -> "multi_details_done"

\* The innermost frame returns (e = NoExc) or raises e: it is popped, and the
\* frame below goes on at its continuation; the outermost frame ends the call.
Leave(e) ==
    /\ stack' = SubSeq(stack, 1, Len(stack) - 1)
    /\ exc' = e
    /\ IF Len(stack) = 1
       THEN /\ pc' = "done"
            /\ outcome' = IF e = NoExc THEN "returned" ELSE "raised"
       ELSE /\ pc' = Continuation(stack[Len(stack) - 1])
            /\ outcome' = outcome

\* A caller-facing call begins.
Begin(name, a) ==
    /\ pc = "idle"
    /\ op' = name
    /\ args' = a
    /\ stack' = <<name>>
    /\ exc' = NoExc
    /\ outcome' = "none"
    /\ requests' = 0
    /\ log' = <<>>

RequestIdle == trace' = <<>> /\ attempt' = 0 /\ nmatches' = 0
RatingsIdle ==
    /\ store_id' = 0 /\ ratings' = NoArgs /\ countries' = <<>>
    /\ cidx' = 0 /\ dataset' = ZeroDataset

DetailsIdle == details' = NoArgs /\ app' = <<>>
MultiIdle == aidx' = 0 /\ yielded' = <<>>
ListIdle == amount' = 0 /\ ids' = <<>>

\* time.sleep(sleep) raises ValueError for a negative sleep
SleepRaises(sleep) == sleep # <<>> /\ sleep[1] < 0

\* time.sleep(sleep) if sleep is not None
SleepEvents(sleep) ==
    IF sleep = <<>> THEN <<>>
    ELSE IF SleepRaises(sleep) THEN <<"sleep(" \o ToString(sleep[1]) \o "):raise">>
    ELSE <<"sleep(" \o ToString(sleep[1]) \o ")">>

\* except Exception: of the attempt att.  The handler of the initial attempt
\* makes the retry, the handler of the retry raises AppStoreException.
RetryNever(att) == FALSE
Retry(att) == att = 1

(***************************************************************************)
(* get_store_id_for_country called by the user.                            *)
(***************************************************************************)
CallStoreId(country) ==
    LET r == get_store_id_for_country(country) IN
    /\ pc = "idle"
    /\ op' = "get_store_id_for_country"
    /\ args' = [country |-> country]
    /\ stack' = <<>>
    /\ pc' = "done"
    /\ exc' = r.exc
    /\ outcome' = IF r.exc = NoExc THEN "returned" ELSE "raised"
    /\ requests' = 0
    /\ log' = <<>>
    /\ store_id' = r.value
    /\ RequestIdle
    /\ ratings' = NoArgs /\ countries' = <<>> /\ cidx' = 0 /\ dataset' = ZeroDataset
    /\ DetailsIdle /\ MultiIdle /\ ListIdle

(***************************************************************************)
(* get_app_ratings.                                                        *)
(***************************************************************************)
\* countries: a str becomes the one-element list, a list is kept
NormaliseCountries(cs) ==
    IF TypeOf(cs) = "str" THEN <<cs.str>> ELSE cs.list

\* the frame is entered: dataset is zeroed, countries normalised
RatingsEnter(app_id, cs, sleep) ==
    /\ ratings' = [app_id |-> app_id, sleep |-> sleep]
    /\ countries' = NormaliseCountries(cs)
    /\ cidx' = 1
    /\ dataset' = ZeroDataset
    /\ store_id' = 0
    /\ RequestIdle

CallRatings(app_id, cs, sleep) ==
    /\ Begin("get_app_ratings", [app_id |-> app_id, countries |-> cs, sleep |-> sleep])
    /\ pc' = "ratings_loop"
    /\ RatingsEnter(app_id, cs, sleep)
    /\ DetailsIdle /\ MultiIdle /\ ListIdle

\* for country in countries: ... store_id = self.get_store_id_for_country(country);
\* after the last country: return dataset
RatingsLoop ==
    /\ In("get_app_ratings", "ratings_loop")
    /\ IF cidx > Len(countries)
       THEN /\ Leave(NoExc)
            /\ UNCHANGED <<store_id, trace, attempt>>
       ELSE LET r == get_store_id_for_country(countries[cidx]) IN
            IF r.exc # NoExc
            THEN /\ Leave(r.exc)
                 /\ trace' = <<>>
                 /\ UNCHANGED <<store_id, attempt>>
            ELSE /\ store_id' = r.value
                 /\ trace' = <<>>
                 /\ attempt' = 1
                 /\ pc' = "ratings_request"
                 /\ UNCHANGED <<stack, exc, outcome>>
    /\ UNCHANGED <<op, args, requests, log, nmatches, ratings, countries, cidx, dataset,
                   details, app, aidx, yielded,
                   amount, ids>>

\* ratings = self._parse_rating(result), then dataset[k] += ratings[k] for
\* the five k unless ratings is None: the exception raised, or the new
\* dataset
AddCountry(data, text) ==
    LET r == _parse_rating(text) IN
    IF r.exc # NoExc THEN [exc |-> r.exc, value |-> data]
    ELSE [exc |-> NoExc,
          value |-> IF r.value = <<>> THEN data ELSE Accumulate(data, r.value[1])]

\* what requests.get(...) does: it raises, or returns a body
RequestRaises == [raises |-> "Exception"]
PageResponses == {RequestRaises} \cup {[text |-> p] : p \in Pages}

\* One attempt, the initial one (time.sleep(sleep), then
\* requests.get(url, headers=headers).text) or the retry (time.sleep(2), then
\* the same request), and what follows it.  A time.sleep(sleep) that raises
\* ends the initial attempt before its request.
\* If it raised, the retry comes next, or after the retry the exception.
\* If it returned: ratings = self._parse_rating(result), then
\* dataset += ratings unless ratings is None, then the next country.
RatingsRequest(response) ==
    LET sleepFails == attempt = 1 /\ SleepRaises(ratings.sleep)
        raises == sleepFails \/ response = RequestRaises
        before == IF attempt = 1 THEN SleepEvents(ratings.sleep) ELSE <<"sleep(2)">>
        get == IF sleepFails THEN <<>>
               ELSE <<IF raises THEN "get:raise" ELSE "get:ok">>
    IN
    /\ In("get_app_ratings", "ratings_request")
    /\ requests' = requests + Len(get)
    /\ trace' = trace \o before \o get
    /\ IF raises
       THEN IF Retry(attempt)
            THEN /\ attempt' = 2
                 /\ UNCHANGED <<pc, stack, exc, outcome, nmatches, dataset, cidx>>
            ELSE /\ Leave(AppStoreException(
                        "Could not parse app store rating response for ID "
                        \o ratings.app_id))
                 /\ UNCHANGED <<attempt, nmatches, dataset, cidx>>
       ELSE LET r == AddCountry(dataset, response.text) IN
            /\ nmatches' = Len(response.text)
            /\ IF r.exc # NoExc
               THEN /\ Leave(r.exc)
                    /\ UNCHANGED <<attempt, dataset, cidx>>
               ELSE /\ dataset' = r.value
                    /\ cidx' = cidx + 1
                    /\ attempt' = 0
                    /\ pc' = "ratings_loop"
                    /\ UNCHANGED <<stack, exc, outcome>>
    /\ UNCHANGED <<op, args, log, store_id, ratings, countries,
                   details, app, aidx, yielded,
                   amount, ids>>

(***************************************************************************)
(* _log_error: one line appended to log/<country>_log.txt.                 *)
(***************************************************************************)
_log_error(app_store_country, message) ==
    log' = Append(log, [country |-> app_store_country, message |-> message])

(***************************************************************************)
(* get_app_details.                                                        *)
(***************************************************************************)
LookupResponses == {RequestRaises} \cup {[json |-> b] : b \in LookupBodies}

\* the frame is entered, up to the lookup request
DetailsEnter(app_id, country, add_ratings, flat, sleep) ==
    /\ details' = [app_id |-> app_id, country |-> country,
                   add_ratings |-> add_ratings, flatten |-> flat, sleep |-> sleep]
    /\ app' = <<>>
    /\ trace' = <<>>
    /\ attempt' = 1
    /\ nmatches' = 0

CallDetails(app_id, country, add_ratings, flat, sleep) ==
    /\ Begin("get_app_details",
             [app_id |-> app_id, country |-> country, add_ratings |-> add_ratings,
              flatten |-> flat, sleep |-> sleep])
    /\ pc' = "details_request"
    /\ DetailsEnter(app_id, country, add_ratings, flat, sleep)
    /\ RatingsIdle /\ MultiIdle /\ ListIdle

\* app = result["results"][0], KeyError and IndexError turned into
\* AppStoreException; then the flattening if flatten is set
ExtractApp(result, flat, app_id) ==
    LET results == GetResults(result)
        first == GetFirst(results.value)
        notFound == AppStoreException("No app found with ID " \o app_id)
    IN  IF results.exc # NoExc
        THEN [exc |-> IF results.exc.kind = "KeyError" THEN notFound ELSE results.exc,
              value |-> <<>>]
        ELSE IF first.exc # NoExc
        THEN [exc |-> notFound, value |-> <<>>]
        ELSE IF flat THEN flatten(first.value.dict)
        ELSE [exc |-> NoExc, value |-> first.value.dict]

\* One attempt of the lookup, the initial one (time.sleep(sleep), then
\* requests.get(url).json()) or the retry (time.sleep(2), then the same
\* request), and what follows it up to the add_ratings test.  A
\* time.sleep(sleep) that raises ends the initial attempt before its request.
DetailsRequest(response) ==
    LET sleepFails == attempt = 1 /\ SleepRaises(details.sleep)
        raises == sleepFails \/ response = RequestRaises
        before == IF attempt = 1 THEN SleepEvents(details.sleep) ELSE <<"sleep(2)">>
        get == IF sleepFails THEN <<>>
               ELSE <<IF raises THEN "get:raise" ELSE "get:ok">>
    IN
    /\ In("get_app_details", "details_request")
    /\ requests' = requests + Len(get)
    /\ trace' = trace \o before \o get
    /\ IF raises
       THEN IF Retry(attempt)
            THEN /\ attempt' = 2
                 /\ UNCHANGED <<pc, stack, exc, outcome, app>>
            ELSE /\ Leave(AppStoreException(
                        "Could not parse app store response for ID " \o details.app_id))
                 /\ UNCHANGED <<attempt, app>>
       ELSE LET r == ExtractApp(response.json, details.flatten, details.app_id) IN
            /\ attempt' = 0
            /\ IF r.exc # NoExc
               THEN /\ Leave(r.exc)
                    /\ UNCHANGED app
               ELSE /\ app' = r.value
                    /\ IF details.add_ratings
                       THEN /\ pc' = "details_add_ratings"
                            /\ UNCHANGED <<stack, exc, outcome>>
                       ELSE Leave(NoExc)
    /\ UNCHANGED <<op, args, log, nmatches, store_id, ratings, countries, cidx,
                   dataset, details, aidx, yielded,
                   amount, ids>>

\* ratings = self.get_app_ratings(app_id, countries=[country])
DetailsCallRatings ==
    /\ In("get_app_details", "details_add_ratings")
    /\ stack' = Append(stack, "get_app_ratings")
    /\ pc' = "ratings_loop"
    /\ RatingsEnter(details.app_id, [list |-> <<details.country>>], <<1>>)
    /\ UNCHANGED <<op, args, exc, outcome, requests, log, details, app, aidx, yielded,
                   amount, ids>>

\* get_app_ratings has returned or raised: the histogram is attached, or on
\* AppStoreException the failure is logged and the histogram is None; any
\* other exception goes on to the caller.  return app
DetailsRatingsDone ==
    /\ In("get_app_details", "details_ratings_done")
    /\ IF exc = NoExc
       THEN /\ app' = Set(app, "histogram", Histogram(dataset))
            /\ Leave(NoExc)
            /\ UNCHANGED log
       ELSE IF exc.kind = "AppStoreException"
       THEN /\ _log_error(details.country,
                          "Unable to collect ratings for " \o details.app_id)
            /\ app' = Set(app, "histogram", PyNone)
            /\ Leave(NoExc)
       ELSE /\ Leave(exc)
            /\ UNCHANGED <<app, log>>
    /\ UNCHANGED <<op, args, requests, trace, attempt, nmatches, store_id, ratings,
                   countries, cidx, dataset, details, aidx, yielded,
                   amount, ids>>

(***************************************************************************)
(* get_multiple_app_details, iterated to its end by the caller.            *)
(***************************************************************************)
CallMultiple(app_ids, country, add_ratings) ==
    /\ Begin("get_multiple_app_details",
             [app_ids |-> app_ids, country |-> country, add_ratings |-> add_ratings])
    /\ pc' = "multi_loop"
    /\ aidx' = 1
    /\ yielded' = <<>>
    /\ RequestIdle /\ RatingsIdle /\ DetailsIdle /\ ListIdle

\* for app_id in app_ids: self.get_app_details(app_id, country=country,
\* add_ratings=add_ratings, sleep=sleep, ...) with flatten and sleep at their
\* defaults True and 1; after the last app_id the generator is exhausted
MultiLoop ==
    /\ In("get_multiple_app_details", "multi_loop")
    /\ IF aidx > Len(args.app_ids)
       THEN /\ Leave(NoExc)
            /\ UNCHANGED <<details, app, trace, attempt, nmatches>>
       ELSE /\ stack' = Append(stack, "get_app_details")
            /\ pc' = "details_request"
            /\ DetailsEnter(args.app_ids[aidx], args.country, args.add_ratings,
                            TRUE, <<1>>)
            /\ UNCHANGED <<exc, outcome>>
    /\ UNCHANGED <<op, args, requests, log, store_id, ratings, countries, cidx,
                   dataset, aidx, yielded,
                   amount, ids>>

\* get_app_details has returned or raised: its record is yielded, or on
\* AppStoreException the failure is logged and the loop continues; any other
\* exception leaves the generator.
MultiDetailsDone ==
    /\ In("get_multiple_app_details", "multi_details_done")
    /\ IF exc = NoExc
       THEN /\ yielded' = Append(yielded, aidx)
            /\ aidx' = aidx + 1
            /\ pc' = "multi_loop"
            /\ UNCHANGED <<stack, exc, outcome, log>>
       ELSE IF exc.kind = "AppStoreException"
       THEN /\ _log_error(args.country, exc.msg)
            /\ aidx' = aidx + 1
            /\ pc' = "multi_loop"
            /\ exc' = NoExc
            /\ UNCHANGED <<stack, outcome, yielded>>
       ELSE /\ Leave(exc)
            /\ UNCHANGED <<aidx, yielded, log>>
    /\ UNCHANGED <<op, args, requests, trace, attempt, nmatches, store_id, ratings,
                   countries, cidx, dataset, details, app,
                   amount, ids>>

\* the app_ids lists of the model: "11", "com.a", "11", ...
AppIdLists ==
    {[i \in 1..k |-> IF i % 2 = 1 THEN "11" ELSE "com.a"] : k \in 0..MaxIds}

(***************************************************************************)
(* Exception classes: what an except clause catches.                       *)
(***************************************************************************)
\* the base classes of the exceptions a request can raise; the names without
\* a module are Python's builtins
Bases(kind) ==
    CASE kind = "ConnectionError" -> {"OSError", "Exception"}
      [] kind = "requests.ConnectionError" ->
            {"requests.RequestException", "OSError", "Exception"}
      [] kind = "requests.Timeout" ->
            {"requests.RequestException", "OSError", "Exception"}
      [] kind = "json.JSONDecodeError" -> {"ValueError", "Exception"}
      [] OTHER -> {"Exception"}

\* except cls: catches an exception of kind
Catches(cls, kind) == kind = cls \/ cls \in Bases(kind)

(***************************************************************************)
(* get_app_ids_for_query.                                                  *)
(***************************************************************************)
\* term is None or term == ""
TermMissingNoneOnly(term) == TypeOf(term) = "none"
TermMissing(term) == TypeOf(term) = "none" \/ term = PyStr("")

\* seq[:n]
SliceTo(seq, n) ==
    IF n >= 0 THEN SubSeq(seq, 1, Min(n, Len(seq)))
    ELSE SubSeq(seq, 1, Len(seq) + n)

Terms == {PyNone, PyStr(""), PyStr("maps")}
Nums == {-1, 0, 1, 2}
PageCounts == {1, 2}

\* what the search request can raise
QueryRaises ==
    {[raises |-> k] : k \in {"ConnectionError", "requests.ConnectionError",
                             "requests.Timeout", "json.JSONDecodeError"}}
\* the JSON bodies of the search endpoint: bubbles is the list of result
\* buckets, each modelled by the list of the "id"s of its results
UpstreamIds == [i \in 1..MaxResults |-> 100 + i]
QueryBodies ==
    {[error |-> "x"], [bubbles |-> <<>>]}
    \cup {[bubbles |-> <<SubSeq(UpstreamIds, 1, k)>>] : k \in 0..MaxResults}
    \cup {[bubbles |-> <<SubSeq(UpstreamIds, 1, 1), SubSeq(UpstreamIds, 2, MaxResults)>>]}
QueryResponses == QueryRaises \cup {[json |-> b] : b \in QueryBodies}

CallQuery(term, num, page, country) ==
    /\ Begin("get_app_ids_for_query",
             [term |-> term, num |-> num, page |-> page, country |-> country])
    /\ pc' = "query_prepare"
    /\ RequestIdle /\ RatingsIdle /\ DetailsIdle /\ MultiIdle /\ ListIdle

\* the term test, amount = int(num) * int(page), and
\* country = self.get_store_id_for_country(country)
QueryPrepare ==
    /\ In("get_app_ids_for_query", "query_prepare")
    /\ IF TermMissing(args.term)
       THEN /\ Leave(AppStoreException("No term was given"))
            /\ UNCHANGED <<amount, store_id>>
       ELSE LET r == get_store_id_for_country(args.country) IN
            /\ amount' = args.num * args.page
            /\ IF r.exc # NoExc
               THEN /\ Leave(r.exc)
                    /\ UNCHANGED store_id
               ELSE /\ store_id' = r.value
                    /\ pc' = "query_request"
                    /\ UNCHANGED <<stack, exc, outcome>>
    /\ UNCHANGED <<op, args, requests, log, trace, attempt, nmatches, ratings,
                   countries, cidx, dataset, details, app, aidx, yielded, ids>>

\* requests.get(url, headers=headers, timeout=timeout).json() under
\* except ConnectionError / except json.JSONDecodeError, then
\* return [app["id"] for app in result["bubbles"][0]["results"][:amount]]
QueryRequest(response) ==
    /\ In("get_app_ids_for_query", "query_request")
    /\ requests' = requests + 1
    /\ trace' = Append(trace, IF "raises" \in DOMAIN response THEN "get:raise" ELSE "get:ok")
    /\ IF "raises" \in DOMAIN response
       THEN /\ Leave(IF Catches("ConnectionError", response.raises)
                     THEN AppStoreException("Cannot connect to store: ")
                     ELSE IF Catches("json.JSONDecodeError", response.raises)
                     THEN AppStoreException("Could not parse app store response")
                     ELSE Exc(response.raises, ""))
            /\ UNCHANGED ids
       ELSE LET result == response.json IN
            IF "bubbles" \notin DOMAIN result
            THEN /\ Leave(Exc("KeyError", "'bubbles'"))
                 /\ UNCHANGED ids
            ELSE IF result.bubbles = <<>>
            THEN /\ Leave(Exc("IndexError", "list index out of range"))
                 /\ UNCHANGED ids
            ELSE /\ ids' = SliceTo(result.bubbles[1], amount)
                 /\ Leave(NoExc)
    /\ UNCHANGED <<op, args, log, attempt, nmatches, store_id, ratings, countries,
                   cidx, dataset, details, app, aidx, yielded, amount>>

(***************************************************************************)
(* get_app_from_collection_category.                                       *)
(***************************************************************************)
\* util.AppStoreCategories: an entry is a [slug, id] list or, for some, a
\* bare id.  Two entries of the table stand for the two shapes.
AppStoreCategories ==
    ("APPLE_BOOKS" :> PyList(<<PyStr("books-apps"), PyInt(6018)>>))
    @@ ("APPLE_CATALOGS" :> PyInt(6022))
CategoryArgs == {"APPLE_BOOKS", "APPLE_CATALOGS", "APPLE_NO_SUCH"}

\* data[:100]
ChartLimit == 100

\* url.split("/id")[-1]; an href is modelled by the list of its pieces
\* between the occurrences of "/id"
LastPiece(href) == href[Len(href)]

Hrefs == {<<"https://apps.apple.com/us/app/a", "11">>,
          <<"https://apps.apple.com/us/app/b", "12">>,
          <<"https://apps.apple.com/us/story">>}
\* the charts page: the request raises, or returns a document that does not
\* parse, or one with the hrefs the xpath finds
ChartResponses ==
    {[raises |-> "requests.ConnectionError"], [content |-> "empty"]}
    \cup {[hrefs |-> h] : h \in SeqsUpTo(Hrefs, MaxHrefs)}

CallChart(collection, category, country) ==
    /\ Begin("get_app_from_collection_category",
             [collection |-> collection, category |-> category, country |-> country])
    /\ pc' = "chart_prepare"
    /\ RequestIdle /\ RatingsIdle /\ DetailsIdle /\ MultiIdle /\ ListIdle

\* if hasattr(AppStoreCategories, category): category_data = getattr(...)
\* url = f"...{category_data[0]}/{category_data[1]}..."
\* category_data is unbound for a name that is not in the table, and is not
\* subscriptable for a bare id.
ChartPrepare ==
    /\ In("get_app_from_collection_category", "chart_prepare")
    /\ IF args.category \notin DOMAIN AppStoreCategories
       THEN Leave(Exc("UnboundLocalError",
                      "local variable 'category_data' referenced before assignment"))
       ELSE IF TypeOf(AppStoreCategories[args.category]) # "list"
       THEN Leave(Exc("TypeError", "'int' object is not subscriptable"))
       ELSE /\ pc' = "chart_request"
            /\ UNCHANGED <<stack, exc, outcome>>
    /\ UNCHANGED <<op, args, requests, log, trace, attempt, nmatches, store_id,
                   ratings, countries, cidx, dataset, details, app, aidx, yielded,
                   amount, ids>>

\* response = requests.get(**options); tree = html.fromstring(response.content)
\* data = tree.xpath(...); return [url.split("/id")[-1] for url in data[:100]]
ChartRequest(response) ==
    /\ In("get_app_from_collection_category", "chart_request")
    /\ requests' = requests + 1
    /\ trace' = Append(trace, IF "raises" \in DOMAIN response THEN "get:raise" ELSE "get:ok")
    /\ IF "raises" \in DOMAIN response
       THEN /\ Leave(Exc(response.raises, ""))
            /\ UNCHANGED ids
       ELSE IF "content" \in DOMAIN response
       THEN /\ Leave(Exc("lxml.etree.ParserError", "Document is empty"))
            /\ UNCHANGED ids
       ELSE LET data == SliceTo(response.hrefs, ChartLimit) IN
            /\ ids' = [i \in 1..Len(data) |-> LastPiece(data[i])]
            /\ Leave(NoExc)
    /\ UNCHANGED <<op, args, log, attempt, nmatches, store_id, ratings, countries,
                   cidx, dataset, details, app, aidx, yielded, amount>>

CountriesArgs ==
    {[str |-> c] : c \in CountryArgs}
    \cup {[list |-> cs] : cs \in SeqsUpTo(CountryArgs, MaxCountries)}

Next ==
    \/ \E c \in Codes : CallStoreId(c)
    \/ \E a \in AppIds, cs \in CountriesArgs, s \in SleepArgs : CallRatings(a, cs, s)
    \/ RatingsLoop
    \/ \E a \in AppIds, c \in CountryArgs, r \in BOOLEAN, f \in BOOLEAN, s \in SleepArgs :
            CallDetails(a, c, r, f, s)
    \/ \E response \in LookupResponses : DetailsRequest(response)
    \/ DetailsCallRatings
    \/ DetailsRatingsDone
    \/ \E l \in AppIdLists, c \in CountryArgs, r \in BOOLEAN : CallMultiple(l, c, r)
    \/ MultiLoop
    \/ MultiDetailsDone
    \/ \E t \in Terms, n \in Nums, p \in PageCounts, c \in CountryArgs : CallQuery(t, n, p, c)
    \/ QueryPrepare
    \/ \E response \in QueryResponses : QueryRequest(response)
    \/ \E col \in {"top-free"}, cat \in CategoryArgs, c \in CountryArgs : CallChart(col, cat, c)
    \/ ChartPrepare
    \/ \E response \in ChartResponses : ChartRequest(response)
    \/ \E response \in PageResponses : RatingsRequest(response)

Spec == Init /\ [][Next]_vars

(***************************************************************************)
(* get_app_ratings over a store whose review pages are fixed.              *)
(* The call is taken from the point where its frame has been entered; the  *)
(* page the store serves for each country is part of the arguments record. *)
(***************************************************************************)
SumCountries == {<<"u", "s">>, <<"d", "e">>, <<"E", "S">>}
SumPages ==
    {[i \in 1..5 |-> <<"2">>],
     [i \in 1..5 |-> IF i = 1 THEN <<"2">> ELSE <<"0">>],
     [i \in 1..4 |-> <<"2">>],
     [i \in 1..5 |-> IF i = 5 THEN <<"-", "1">> ELSE <<"0">>],
     [i \in 1..5 |-> IF i = 2 THEN <<"1", ",", "2">> ELSE <<"2">>]}

SumInit ==
    /\ \E cs \in SeqsUpTo(SumCountries, MaxSumCountries), f \in [SumCountries -> SumPages] :
          /\ args = [app_id |-> "11", countries |-> [list |-> cs], sleep |-> <<>>,
                     pageOf |-> f]
          /\ countries = cs
    /\ op = "get_app_ratings"
    /\ stack = <<"get_app_ratings">>
    /\ pc = "ratings_loop"
    /\ exc = NoExc
    /\ outcome = "none"
    /\ requests = 0
    /\ log = <<>>
    /\ trace = <<>>
    /\ attempt = 0
    /\ nmatches = 0
    /\ store_id = 0
    /\ ratings = [app_id |-> "11", sleep |-> <<>>]
    /\ cidx = 1
    /\ dataset = ZeroDataset
    /\ details = NoArgs
    /\ app = <<>>
    /\ aidx = 0
    /\ yielded = <<>>
    /\ amount = 0
    /\ ids = <<>>

\* the request for the loop's country returns the page the store has for it
RatingsRequestFixed ==
    /\ cidx \in 1..Len(countries)
    /\ RatingsRequest([text |-> args.pageOf[countries[cidx]]])

SumNext ==
    \/ RatingsLoop
    \/ RatingsRequestFixed

SpecSum == SumInit /\ [][SumNext]_vars

RECURSIVE RatingsOf(_, _, _)
\* get_app_ratings over the list cs when every request returns pageOf's
\* page: the loop of the operation, from the dataset data
RatingsOf(data, cs, pageOf) ==
    IF cs = <<>> THEN [exc |-> NoExc, value |-> data]
    ELSE LET r == get_store_id_for_country(Head(cs))
             s == AddCountry(data, pageOf[Head(cs)])
         IN  IF r.exc # NoExc THEN [exc |-> r.exc, value |-> data]
             ELSE IF s.exc # NoExc THEN s
             ELSE RatingsOf(s.value, Tail(cs), pageOf)

(***************************************************************************)
(* Properties.                                                             *)
(***************************************************************************)
Finished == pc = "done"
Returned == pc = "done" /\ outcome = "returned"
Raised == pc = "done" /\ outcome = "raised"
Last(s) == s[Len(s)]

\* get_app_details has returned its record: to the user, or to
\* get_multiple_app_details
DetailsReturned ==
    \/ op = "get_app_details" /\ Returned
    \/ In("get_multiple_app_details", "multi_details_done") /\ exc = NoExc

\* C1: no failure of get_app_details for an identifier is raised to the
\* caller of get_multiple_app_details: the iteration never ends with an
\* exception.
C1_NoFailureReachesCaller ==
    op = "get_multiple_app_details" => outcome # "raised"

\* C2: once get_app_details with add_ratings has its base record and has
\* called get_app_ratings, it returns: the record carries histogram, which is
\* the five counts in star order 1 to 5 if get_app_ratings returned, and None,
\* with a line in the country's log, if it failed.
C2_RatingsFailureSwallowed ==
    (op = "get_app_details" /\ Finished /\ ratings # NoArgs) =>
        /\ outcome = "returned"
        /\ HasKey(app, "histogram")
        /\ \/ Get(app, "histogram") = PyList([k \in 1..5 |-> PyInt(dataset[k])])
           \/ /\ Get(app, "histogram") = PyNone
              /\ \E i \in 1..Len(log) : log[i].country = args.country

\* C3: get_app_ratings does not raise for a country one of whose two
\* attempts returned, whatever the page holds.
C3_NoRaiseWhenAnAttemptReturned ==
    ~(op = "get_app_ratings" /\ Raised /\ trace # <<>> /\ Last(trace) = "get:ok")

\* a request of get_app_ratings returns a page that does not hold exactly
\* five star fragments
C4_WrongCountStep ==
    /\ In("get_app_ratings", "ratings_request")
    /\ trace' # <<>>
    /\ trace' # trace
    /\ Last(trace') = "get:ok"
    /\ nmatches' # 5

\* C4: a country whose page yields a number of star fragments other than
\* five leaves all five buckets as they were, raises nothing, and the loop
\* goes on with the next country.
C4_WrongCountLeavesHistogram ==
    [][C4_WrongCountStep =>
        /\ dataset' = dataset
        /\ exc' = NoExc
        /\ stack' = stack
        /\ pc' = "ratings_loop"
        /\ cidx' = cidx + 1]_vars

\* a call over two countries has returned: the first country's page added
\* to the histogram, the second's held four fragments
C4_Witness ==
    /\ op = "get_app_ratings" /\ Returned
    /\ Len(countries) = 2
    /\ nmatches = 4
    /\ dataset # ZeroDataset

\* the lists that hold the elements of s in another order
Perms(s) ==
    {[i \in 1..Len(s) |-> s[f[i]]] :
        f \in {g \in [1..Len(s) -> 1..Len(s)] :
                \A i, j \in 1..Len(s) : g[i] = g[j] => i = j}}
AddBuckets(a, b) == [k \in 1..5 |-> a[k] + b[k]]

\* C5: with the pages fixed, the histogram get_app_ratings returns for a
\* country list is the one it returns for every permutation of the list, and
\* is the bucket-wise sum of what it returns for the two parts of the list,
\* wherever the list is cut.
C5_SumOrderIndependent ==
    (op = "get_app_ratings" /\ Returned /\ "pageOf" \in DOMAIN args) =>
        /\ \A p \in Perms(countries) :
              RatingsOf(ZeroDataset, p, args.pageOf) = [exc |-> NoExc, value |-> dataset]
        /\ \A i \in 0..Len(countries) :
              LET front == RatingsOf(ZeroDataset, SubSeq(countries, 1, i), args.pageOf)
                  back == RatingsOf(ZeroDataset,
                                    SubSeq(countries, i + 1, Len(countries)), args.pageOf)
              IN  /\ front.exc = NoExc
                  /\ back.exc = NoExc
                  /\ AddBuckets(front.value, back.value) = dataset

\* a call over three different countries with three different pages has
\* returned a histogram that is not all zero
C5_Witness ==
    /\ op = "get_app_ratings" /\ Returned /\ "pageOf" \in DOMAIN args
    /\ Len(countries) = 3
    /\ Cardinality(Range(countries)) = 3
    /\ Cardinality({args.pageOf[c] : c \in Range(countries)}) = 3
    /\ dataset # ZeroDataset

\* C6: the histogram's keys are exactly 1 to 5 and every count is a
\* non-negative integer, at every step.
C6_CountsNonNegative ==
    /\ DOMAIN dataset = 1..5
    /\ \A k \in 1..5 : dataset[k] \in Nat

C8_EmptyTermFailsBeforeRequest ==
    (op = "get_app_ids_for_query" /\ args.term \in {PyNone, PyStr("")}) =>
        /\ requests = 0
        /\ trace = <<>>
        /\ outcome # "returned"
        /\ Finished => outcome = "raised" /\ exc.kind = "AppStoreException"

\* the call with the empty string has raised, no request issued
C8_Witness ==
    /\ op = "get_app_ids_for_query" /\ args.term = PyStr("")
    /\ Raised /\ exc = AppStoreException("No term was given")
    /\ requests = 0

\* the two cases of each letter of the alphabet
LetterCases == {{"u", "U"}, {"s", "S"}, {"d", "D"}, {"e", "E"}}
\* a and b are the same code up to letter case
SameCode(a, b) ==
    /\ Len(a) = Len(b)
    /\ \A i \in 1..Len(a) : a[i] = b[i] \/ {a[i], b[i]} \in LetterCases

\* C9: called with a code of the table in any letter case,
\* get_store_id_for_country returns that code's storefront id; called with
\* any other code it raises AppStoreException.  The outcome depends on
\* nothing but the code, so every call with it ends the same.
C9_StoreIdByCode ==
    (op = "get_store_id_for_country" /\ Finished) =>
        LET keys == {k \in DOMAIN AppStoreMarkets : SameCode(args.country, k)} IN
        IF keys # {}
        THEN outcome = "returned" /\ exc = NoExc
             /\ \A k \in keys : store_id = AppStoreMarkets[k]
        ELSE outcome = "raised" /\ exc.kind = "AppStoreException"

\* the code dE has been resolved to Germany's storefront
C9_Witness ==
    /\ op = "get_store_id_for_country" /\ Returned
    /\ args.country = <<"d", "E">>
    /\ store_id = 143443

\* C10, for get_app_ids_for_query and get_app_from_collection_category:
\* whenever the operation fails, what reaches the caller is an
\* AppStoreException with a message.
C10_OnlyAppStoreException ==
    (op \in {"get_app_ids_for_query", "get_app_from_collection_category"}
     /\ outcome = "raised") =>
        exc.kind = "AppStoreException" /\ exc.msg # ""

\* C11: what get_app_ids_for_query returns is the first identifiers the
\* store sent, in the store's order, and never more of them than
\* num * page.
C11_TruncatedToAmount ==
    (op = "get_app_ids_for_query" /\ Returned) =>
        /\ Len(ids) <= Len(UpstreamIds)
        /\ ids = SubSeq(UpstreamIds, 1, Len(ids))
        /\ Len(ids) <= args.num * args.page

\* the events that end an attempt: the request returned, the request
\* raised, or the sleep before the initial request raised
GetEvents == {"get:ok", "get:raise"}
FailureEvents ==
    {"get:raise"} \cup {SleepEvents(sl)[1] : sl \in {x \in SleepArgs : SleepRaises(x)}}
AttemptsAt(s) == {i \in 1..Len(s) : s[i] \in GetEvents \cup FailureEvents}
BothRaised(s) == Cardinality({i \in 1..Len(s) : s[i] \in FailureEvents}) = 2
\* what the handler of the retry raises
LookupExhausted(a) ==
    AppStoreException("Could not parse app store response for ID " \o a)
RatingsExhausted(a) ==
    AppStoreException("Could not parse app store rating response for ID " \o a)

\* the attempts made so far for the lookup, or for the country, in progress
C12_AttemptsInOrder ==
    /\ Cardinality(AttemptsAt(trace)) <= 2
    /\ Cardinality({i \in 1..Len(trace) : trace[i] \in GetEvents}) <= 2
    /\ \A i, j \in AttemptsAt(trace) :
          i < j => /\ trace[i] \in FailureEvents
                   /\ i < j - 1
                   /\ trace[j - 1] = "sleep(2)"
    /\ \A i \in 1..Len(trace) :
          trace[i] = "sleep(2)" => i > 1 /\ trace[i - 1] \in FailureEvents

\* the retry's exception is there exactly after two attempts that raised, and
\* then the operation is over without a histogram or a record from that
\* request
C12_RaisesIffBothRaised ==
    /\ (details # NoArgs /\ exc = LookupExhausted(details.app_id)) => BothRaised(trace)
    /\ (ratings # NoArgs /\ exc = RatingsExhausted(ratings.app_id)) => BothRaised(trace)
    /\ (op = "get_app_ratings" /\ BothRaised(trace)) =>
          /\ Raised /\ exc = RatingsExhausted(ratings.app_id)
          /\ cidx \in 1..Len(countries)
          /\ requests <= 2 * cidx
    /\ (op = "get_app_details" /\ BothRaised(trace)) =>
          \/ Raised /\ exc = LookupExhausted(details.app_id) /\ ratings = NoArgs /\ requests <= 2
          \/ In("get_app_details", "details_ratings_done") /\ exc = RatingsExhausted(ratings.app_id)
          \/ Returned /\ Get(app, "histogram") = PyNone

\* a step from a state in which both attempts have raised issues no request;
\* the step in which the second attempt raises ends the frame that made it
C12_Step ==
    /\ BothRaised(trace) => requests' = requests
    /\ (~BothRaised(trace) /\ BothRaised(trace')) =>
          /\ exc' \in {LookupExhausted(a) : a \in AppIds}
                    \cup {RatingsExhausted(a) : a \in AppIds}
          /\ stack' = SubSeq(stack, 1, Len(stack) - 1)
          /\ dataset' = dataset

\* C12: for the lookup of get_app_details and for each country of
\* get_app_ratings, at most two attempts are made; the second is made only
\* after the first raised and after the backoff sleep of 2 seconds; nothing
\* follows an attempt that returned; the retry's AppStoreException is raised
\* if and only if both attempts raised, and once they have no further request
\* is issued.
C12_RetryOnce ==
    /\ [](op \in {"get_app_details", "get_app_ratings", "get_multiple_app_details"}
            => C12_AttemptsInOrder /\ C12_RaisesIffBothRaised)
    /\ [][C12_Step]_vars

\* a call over two countries has raised at the first: two requests, the
\* second after the backoff, and none for the second country
C12_Witness ==
    /\ op = "get_app_ratings" /\ Raised /\ exc = RatingsExhausted(ratings.app_id)
    /\ Len(countries) = 2 /\ cidx = 1
    /\ requests = 2
    /\ trace = <<"sleep(1)", "get:raise", "sleep(2)", "get:raise">>

====
